---- MODULE Spec2Model ----
(***************************************************************************)
(* search-sync: the watermark-based polling change detector                *)
(* (createPollingChangeDetection) driving the MeiliSearch synchronizer     *)
(* (createMeiliSearchSynchronizer).                                        *)
(*                                                                         *)
(* JavaScript runs one callback at a time, so every action below is the    *)
(* code between two suspension points (await) of one async function.       *)
(* Timestamps are milliseconds, modelled as small naturals; epoch 0 is 0.  *)
(***************************************************************************)
EXTENDS Integers, FiniteSets, Sequences, TLC

\* ----------------------------------------------------------------- bounds
MaxTime   == 2   \* source rows carry updatedAt in 1..MaxTime
MaxCycles == 2   \* poll() invocations that can be suspended at the same time
MaxCalls  == 2   \* onChangesDetected invocations in one behaviour
BatchSize == 1   \* changeDetection.batchSize (LIMIT $2)

\* ------------------------------------------------------------ the source
DripListIds == {"d1", "d2"}       \* rows of <schema>."DripLists"
ProjectIds  == {"p1"}             \* rows of <schema>."GitProjects"
RowIds      == DripListIds \cup ProjectIds
OneRowPerTable == {"d1", "p1"}    \* the rows Spec's writers insert
Times       == 1..MaxTime
NoRow       == 0 - 1              \* the row does not exist
Slots       == 1..MaxCycles

VARIABLES
  db,                \* source tables: row id -> updatedAt, or NoRow
  locked,            \* rows locked by a concurrent writer's open transaction
  pool,              \* the pg Pool: per client whether its session is in an
                     \* open transaction and the rows that transaction has
                     \* locked, and per poll() the clients that ran its
                     \* statements
  detIsRunning,      \* detector: isRunning
  interval,          \* detector: interval # null
  leaked,            \* a timer whose handle was overwritten is still ticking
  lastProcessedTime, \* detector: the watermark
  cycles,            \* suspended poll() invocations
  syncIsRunning,     \* synchronizer: isRunning
  startPc,           \* synchronizer.start(): where the call is suspended
  metrics,           \* synchronizer: metrics
  index,             \* MeiliSearch: index name -> documents (id -> updatedAt)
  calls,             \* onChangesDetected invocations so far (see CanBegin)
  registered,        \* detector: the callback the poll closure calls
  startResult,       \* synchronizer.start(): how the call that settled last did
  snapshot,          \* the record the last getMetrics() call returned
  sameDate,          \* snapshot.lastSyncTime is metrics.lastSyncTime's Date object
  healthy,           \* how the last isHealthy() call settled
  healthPc,          \* health request handler: the request awaiting its probe
  response,          \* health request handler: the last response sent
                     \* (statusCode 0: none yet)
  config,            \* config.postgres.changeDetection: schema and schemas
  constructed,       \* createPollingChangeDetection: outcome per detector
  mainPc,            \* main() and shutdown(): where the process is
  exitCode,          \* process.exitCode (0: not set)
  poolEnded,         \* pool.end() has resolved
  signals,           \* per signal: its handler, and the shutdown() it called
  tables,            \* full refresh: the source, table name -> rows of all schemas
  documents,         \* full refresh: MeiliSearch, index name -> documents
  records,           \* full refresh: per poll(), the arrays getAllRecords returned
  hist               \* history: what the properties speak about (see HistInit)

vars == <<db, locked, pool, detIsRunning, interval, leaked, lastProcessedTime, cycles,
          syncIsRunning, startPc, metrics, index, calls,
          registered, startResult, snapshot, sameDate, healthy, healthPc,
          response,
          config, constructed,
          mainPc, exitCode, poolEnded, signals, tables, documents, records,
          hist>>

srcVars  == <<db, locked, pool>>
detVars  == <<detIsRunning, interval, leaked, lastProcessedTime, cycles,
              registered>>
syncVars == <<syncIsRunning, startPc, metrics, index, startResult>>
httpVars == <<healthPc, response>>
apiVars  == <<snapshot, sameDate, healthy, httpVars>>
mainVars == <<config, constructed, mainPc, exitCode, poolEnded, signals>>

refreshVars == <<tables, documents, records>>

\* The signals registerShutdownHandlers listens to.  Per signal: "off" (no
\* handler), "armed" (process.once has registered it), "ending" (the handler
\* ran, its shutdown() awaits pool.end()), "done" (that shutdown() returned).
Signals == {"SIGTERM", "SIGINT"}

\* ------------------------------------------------------------- helpers
Max(S) == CHOOSE x \in S : \A y \in S : y <= x

\* A row as pool.query returns it: the fields the model follows.
Row(r, t) == [id |-> r, updatedAt |-> t]

IdsOf(rows) == {x.id : x \in rows}

\* A poll() that is not running.
IdleCycle == [pc |-> "idle", initial |-> FALSE, since |-> 0,
              dripLists |-> {}, projects |-> {}]

ActiveSlots == {c \in Slots : cycles[c].pc # "idle"}
FreeSlots   == Slots \ ActiveSlots

\* A poll() may begin only while it can still reach its callback within
\* MaxCalls: the polls that have not called back yet each keep one call.
Gathering ==
  {c \in Slots : cycles[c].pc \in {"begin", "query", "commit", "records"}}
CanBegin  == FreeSlots # {} /\ calls + Cardinality(Gathering) < MaxCalls

FreeSlot == CHOOSE c \in FreeSlots : \A d \in FreeSlots : c <= d

\* SELECT ... WHERE "updatedAt" >= $1 ORDER BY "updatedAt" ASC LIMIT $2
\* FOR UPDATE SKIP LOCKED: every answer the database can give for one table.
\* Rows locked by another transaction are skipped; of the others the first
\* batchSize in updatedAt order are returned, ties broken either way.
Eligible(table, since) ==
  {r \in table : db[r] # NoRow /\ db[r] >= since /\ r \notin locked}

QueryAnswers(table, since) ==
  LET el == Eligible(table, since)
      n  == IF Cardinality(el) < BatchSize THEN Cardinality(el) ELSE BatchSize
  IN  {S \in SUBSET el :
         /\ Cardinality(S) = n
         /\ \A s \in S : \A e \in el \ S : db[s] <= db[e]}

getChangedDripLists(since) ==
  {{Row(r, db[r]) : r \in S} : S \in QueryAnswers(DripListIds, since)}

getChangedProjects(since) ==
  {{Row(r, db[r]) : r \in S} : S \in QueryAnswers(ProjectIds, since)}

\* new Date(Math.max(...allTimestamps.map(t => t.getTime())) + 1); of no
\* timestamps Math.max() is -Infinity and the Date is an Invalid Date.
InvalidDate == 0 - 2

\* The timestamp taken from the drip lists alone when there are any.
latestTimestampPerKind(dripLists, projects) ==
  IF dripLists \cup projects = {} THEN InvalidDate
  ELSE IF dripLists # {} THEN Max({x.updatedAt : x \in dripLists}) + 1
  ELSE Max({x.updatedAt : x \in projects}) + 1

latestTimestamp(dripLists, projects) ==
  IF dripLists \cup projects = {} THEN InvalidDate
  ELSE Max({x.updatedAt : x \in dripLists \cup projects}) + 1

\* The Changes object of a cycle that has its rows.
Changes(c) ==
  [dripLists |-> cycles[c].dripLists,
   projects  |-> cycles[c].projects,
   timestamp |-> latestTimestamp(cycles[c].dripLists, cycles[c].projects)]

\* --------------------------------------------------- the connection pool
\* new Pool({connectionString}): pool.query(text) runs the statement on any
\* client that is idle at that moment (the pool opens up to 10).  Two
\* clients are enough for one poll(): it has at most two statements in
\* flight.
Sessions == {"s1", "s2"}

NoStatements == [begin |-> "none", dripLists |-> "none",
                 projects |-> "none", end |-> "none"]

PoolInit ==
  [inTx     |-> [s \in Sessions |-> FALSE],
   rowLocks |-> [s \in Sessions |-> {}],
   ran      |-> [c \in Slots |-> NoStatements]]

\* The rows that transactions left open on the other clients hold locked.
HeldByOthers(s) == UNION {pool.rowLocks[o] : o \in Sessions \ {s}}

\* The answers to one of the two SELECTs when client s runs it: as
\* QueryAnswers, with the rows locked through other clients skipped too.
SessionAnswers(table, since, s) ==
  LET el == Eligible(table, since) \ HeldByOthers(s)
      n  == IF Cardinality(el) < BatchSize THEN Cardinality(el) ELSE BatchSize
  IN  {{Row(r, db[r]) : r \in S} :
         S \in {T \in SUBSET el :
                  /\ Cardinality(T) = n
                  /\ \A x \in T : \A e \in el \ T : db[x] <= db[e]}}

\* ------------------------------------------------------------- history
\* hist records what has happened, for the properties to speak about.  No
\* action reads it; each specification says next to its actions which
\* fields it keeps (the Note... definitions below).
HistInit ==
  [lastApply    |-> "none",  \* outcome of the handleChanges that returned last
   applied      |-> 0,       \* handleChanges calls that found both tasks succeeded
   sum          |-> 0,       \* rows of those calls' change sets
   lastTs       |-> 0,       \* timestamp of the last such change set
   emptyPolls   |-> 0,       \* 'No changes detected.' logs (up to 2) while the
                             \* source has never held a row; 0 once it has
   failed       |-> FALSE,   \* handleChanges failed and start() was not called since
   restarted    |-> FALSE,   \* start() was called after that failure
   failedRows   |-> {},      \* rows of the failed change set, source untouched since
   skipped      |-> {},      \* rows a query skipped because they were locked
   lastChanges  |-> << >>,   \* the change set applied last, and the indexes
   docsAfter    |-> << >>,   \* right after that apply
   lastQuery    |-> "none",  \* full refresh: how the getAllRecords that settled
                             \* last did: "ok" or "failed"
   twice        |-> FALSE,   \* the last apply was of the change set applied
                             \* before it, the indexes untouched in between
   startupError |-> "none",  \* what failed while main() awaited start():
                             \* "init" (initializeIndices) or "apply"
   call         |-> [op |-> "none", arg |-> "none", running |-> FALSE,
                     flip |-> FALSE]]
                             \* the last call of an operation from outside: its
                             \* name, its argument, the isRunning it found, and
                             \* a bit that every call flips

\* ---------------------------------------------------------------- Init
\* createPollingChangeDetection and createMeiliSearchSynchronizer have run;
\* the source is empty until a writer inserts a row.
InitialMetrics ==
  [lastSyncTime |-> 0, lastSuccessfulSync |-> "null", totalProcessedRecords |-> 0]

InitWith(source) ==
  /\ db = source
  /\ locked = {}
  /\ pool = PoolInit
  /\ detIsRunning = FALSE
  /\ interval = FALSE
  /\ leaked = FALSE
  /\ lastProcessedTime = 0
  /\ cycles = [c \in Slots |-> IdleCycle]
  /\ syncIsRunning = FALSE
  /\ startPc = "idle"
  /\ metrics = InitialMetrics
  /\ index = [i \in {"drip_lists", "projects"} |-> [r \in RowIds |-> NoRow]]
  /\ calls = 0
  /\ registered = "none"
  /\ startResult = "none"
  /\ snapshot = {}
  /\ sameDate = FALSE
  /\ healthy = "none"
  /\ healthPc = "idle"
  /\ response = [statusCode |-> 0, status |-> "none",
                  postgres |-> "none", synchronizer |-> "none"]
  /\ config = [schema |-> "sepolia", schemas |-> <<"sepolia">>]
  /\ constructed = [single |-> "ok", multi |-> "ok"]
  /\ mainPc = "none"
  /\ exitCode = 0
  /\ poolEnded = FALSE
  /\ signals = [sig \in Signals |-> "off"]
  /\ tables = [i \in {"drip_lists", "projects"} |-> {}]
  /\ documents = [i \in {"drip_lists", "projects"} |-> {}]
  /\ records = [c \in Slots |-> [dripLists |-> << >>, projects |-> << >>]]
  /\ hist = HistInit

Init == InitWith([r \in RowIds |-> NoRow])

\* ------------------------------------------------- concurrent writers
\* Other clients of the source database.  A writer's transaction is atomic
\* for an INSERT, and otherwise locks a row, then commits a new updatedAt
\* (never an older one) or rolls back.
WriterInsert(r, t) ==
  /\ db[r] = NoRow
  /\ db' = [db EXCEPT ![r] = t]
  /\ UNCHANGED <<locked, pool, detVars, syncVars, calls, apiVars, mainVars,
                 refreshVars>>

WriterLock(r) ==
  /\ db[r] # NoRow
  /\ r \notin locked
  /\ locked' = locked \cup {r}
  /\ UNCHANGED <<db, pool, detVars, syncVars, calls, apiVars, mainVars,
                 refreshVars>>

WriterCommit(r, t) ==
  /\ r \in locked
  /\ t >= db[r]
  /\ db' = [db EXCEPT ![r] = t]
  /\ locked' = locked \ {r}
  /\ UNCHANGED <<pool, detVars, syncVars, calls, apiVars, mainVars,
                 refreshVars>>

WriterRollback(r) ==
  /\ r \in locked
  /\ locked' = locked \ {r}
  /\ UNCHANGED <<db, pool, detVars, syncVars, calls, apiVars, mainVars,
                 refreshVars>>

\* ------------------------------------------------------ the detector
\* start() that creates the timer before its initial poll().
startTimerFirst(onChangesDetected) ==
  IF detIsRunning
    THEN UNCHANGED detVars
    ELSE /\ CanBegin
         /\ detIsRunning' = TRUE
         /\ registered' = onChangesDetected
         /\ interval' = TRUE
         /\ cycles' = [cycles EXCEPT ![FreeSlot] =
                         [IdleCycle EXCEPT !.pc = "begin", !.initial = TRUE,
                                           !.since = lastProcessedTime]]
         /\ UNCHANGED <<leaked, lastProcessedTime>>

\* start(onChangesDetected) up to its first await: nothing when already
\* running, else isRunning = true and the initial poll() of a closure that
\* calls onChangesDetected.
startWithoutGuard(onChangesDetected) ==
  /\ CanBegin
  /\ detIsRunning' = TRUE
  /\ registered' = onChangesDetected
  /\ cycles' = [cycles EXCEPT ![FreeSlot] =
                  [IdleCycle EXCEPT !.pc = "begin", !.initial = TRUE,
                                    !.since = lastProcessedTime]]
  /\ UNCHANGED <<interval, leaked, lastProcessedTime>>

start(onChangesDetected) ==
  IF detIsRunning
    THEN UNCHANGED detVars
    ELSE /\ CanBegin
         /\ detIsRunning' = TRUE
         /\ registered' = onChangesDetected
         /\ cycles' = [cycles EXCEPT ![FreeSlot] =
                         [IdleCycle EXCEPT !.pc = "begin", !.initial = TRUE,
                                           !.since = lastProcessedTime]]
         /\ UNCHANGED <<interval, leaked, lastProcessedTime>>

\* stop(): isRunning = false, and the timer whose handle interval holds is
\* cleared.
stop ==
  /\ detIsRunning' = FALSE
  /\ interval' = FALSE
  /\ UNCHANGED <<leaked, lastProcessedTime, cycles, registered>>

\* poll() returns: the cycle's slot is free again.  stopFirst: the callback
\* failed and handleChanges has run changeDetection.stop() before rethrowing.
\* When the poll was the initial poll of start(), start() resumes at once
\* and creates the timer, overwriting whatever handle interval held.
PollReturns(c, stopFirst) ==
  LET handle == IF stopFirst THEN FALSE ELSE interval
  IN  /\ cycles' = [cycles EXCEPT ![c] = IdleCycle]
      /\ detIsRunning' = IF stopFirst THEN FALSE ELSE detIsRunning
      /\ IF cycles[c].initial
           THEN /\ interval' = TRUE
                /\ leaked' = (leaked \/ handle)
                /\ startPc' = "idle"
                /\ startResult' = IF startPc = "poll" THEN "resolved"
                                                     ELSE startResult
           ELSE /\ interval' = handle
                /\ leaked' = leaked
                /\ UNCHANGED <<startPc, startResult>>

\* poll(), first part: the isRunning check, then gatherChanges sends BEGIN.
BeginPoll(c, isInitial) ==
  cycles' = [cycles EXCEPT ![c] =
               [IdleCycle EXCEPT !.pc = "begin", !.initial = isInitial,
                                 !.since = lastProcessedTime]]

\* A tick of the timer set by setInterval(poll, pollingInterval).  Nothing
\* in poll() looks at whether an earlier poll() is still suspended.  A tick
\* while isRunning is false returns at once and changes nothing.
Tick ==
  /\ interval \/ leaked
  /\ detIsRunning
  /\ CanBegin
  /\ BeginPoll(FreeSlot, FALSE)
  /\ UNCHANGED <<srcVars, detIsRunning, interval, leaked, lastProcessedTime,
                 registered, syncVars, calls, apiVars, mainVars, refreshVars>>

\* BEGIN resolved: both SELECTs are sent.
BeginOk(c) ==
  /\ cycles[c].pc = "begin"
  /\ cycles' = [cycles EXCEPT ![c].pc = "query"]
  /\ UNCHANGED <<srcVars, detIsRunning, interval, leaked, lastProcessedTime,
                 registered, syncVars, calls, apiVars, mainVars, refreshVars>>

\* Promise.all of the two SELECTs resolved: COMMIT is sent.
QueryOk(c) ==
  /\ cycles[c].pc = "query"
  /\ \E dl \in getChangedDripLists(cycles[c].since) :
       \E pr \in getChangedProjects(cycles[c].since) :
         cycles' = [cycles EXCEPT ![c].pc = "commit",
                                  ![c].dripLists = dl, ![c].projects = pr]
  /\ UNCHANGED <<srcVars, detIsRunning, interval, leaked, lastProcessedTime,
                 registered, syncVars, calls, apiVars, mainVars, refreshVars>>

\* gatherChanges without its catch block: no ROLLBACK is sent.
SourceFailWithoutRollback(c) ==
  /\ cycles[c].pc \in {"begin", "query", "commit"}
  /\ PollReturns(c, FALSE)
  /\ UNCHANGED <<srcVars, lastProcessedTime, registered, syncIsRunning,
                 metrics, index, calls, apiVars, mainVars, refreshVars>>

\* A source statement rejected.  BEGIN is sent outside the try block: its
\* error goes straight to poll(), which logs it and returns.  After a SELECT
\* or COMMIT rejected, the catch block of gatherChanges sends ROLLBACK.
SourceFail(c) ==
  /\ cycles[c].pc \in {"begin", "query", "commit"}
  /\ IF cycles[c].pc = "begin"
       THEN PollReturns(c, FALSE)
       ELSE /\ cycles' = [cycles EXCEPT ![c].pc = "rollback",
                                        ![c].dripLists = {},
                                        ![c].projects = {}]
            /\ UNCHANGED <<detIsRunning, interval, leaked, startPc,
                           startResult>>
  /\ UNCHANGED <<srcVars, lastProcessedTime, registered, syncIsRunning,
                 metrics, index, calls, apiVars, mainVars, refreshVars>>

\* ROLLBACK settled: gatherChanges throws (the first error, or ROLLBACK's
\* own), poll() logs it and returns.
RollbackSettled(c) ==
  /\ cycles[c].pc = "rollback"
  /\ PollReturns(c, FALSE)
  /\ UNCHANGED <<srcVars, lastProcessedTime, registered, syncIsRunning,
                 metrics, index, calls, apiVars, mainVars, refreshVars>>

\* gatherChanges without its early return of null.
NoChangesIgnored(dripLists, projects) == FALSE

\* dripLists.length === 0 && projects.length === 0
NoChanges(dripLists, projects) == dripLists = {} /\ projects = {}

\* COMMIT resolved with no rows: gatherChanges returns null, poll() logs
\* 'No changes detected.' and returns.
CommitOkNoChanges(c) ==
  /\ cycles[c].pc = "commit"
  /\ NoChanges(cycles[c].dripLists, cycles[c].projects)
  /\ PollReturns(c, FALSE)
  /\ UNCHANGED <<srcVars, lastProcessedTime, registered, syncIsRunning,
                 metrics, index, calls, apiVars, mainVars, refreshVars>>

\* COMMIT resolved with rows: poll() assigns the watermark and calls
\* onChangesDetected, i.e. handleChanges, which sends both updateDocuments.
CommitOkChanges(c) ==
  /\ cycles[c].pc = "commit"
  /\ ~NoChanges(cycles[c].dripLists, cycles[c].projects)
  /\ lastProcessedTime' = Changes(c).timestamp
  /\ cycles' = [cycles EXCEPT ![c].pc = "submit"]
  /\ calls' = calls + 1
  /\ UNCHANGED <<srcVars, detIsRunning, interval, leaked, registered,
                 syncVars, apiVars, mainVars, refreshVars>>

\* The same steps of gatherChanges with the pool's clients told apart.
\* BEGIN resolved on client s, whose session is in a transaction from now
\* on; both SELECTs are sent.
SessionBeginOk(c, s) ==
  /\ cycles[c].pc = "begin"
  /\ cycles' = [cycles EXCEPT ![c].pc = "query"]
  /\ pool' = [pool EXCEPT !.inTx[s] = TRUE,
                          !.ran[c] = [NoStatements EXCEPT !.begin = s]]
  /\ UNCHANGED <<db, locked, detIsRunning, interval, leaked,
                 lastProcessedTime, registered, syncVars, calls, apiVars,
                 mainVars, refreshVars>>

\* Promise.all of the two SELECTs resolved; they were in flight together,
\* so on two clients: s1 ran the drip-list query, s2 the project query.
\* FOR UPDATE locks the returned rows until the end of the transaction the
\* client's session is in, and only for the statement when it is in none.
\* COMMIT is sent.
SessionQueryOk(c, s1, s2) ==
  /\ cycles[c].pc = "query"
  /\ s1 # s2
  /\ \E dl \in SessionAnswers(DripListIds, cycles[c].since, s1) :
       \E pr \in SessionAnswers(ProjectIds, cycles[c].since, s2) :
         /\ cycles' = [cycles EXCEPT ![c].pc = "commit",
                                     ![c].dripLists = dl, ![c].projects = pr]
         /\ pool' = [pool EXCEPT
                       !.rowLocks[s1] = IF pool.inTx[s1] THEN @ \cup IdsOf(dl)
                                                         ELSE @,
                       !.rowLocks[s2] = IF pool.inTx[s2] THEN @ \cup IdsOf(pr)
                                                         ELSE @,
                       !.ran[c].dripLists = s1,
                       !.ran[c].projects = s2]
  /\ UNCHANGED <<db, locked, detIsRunning, interval, leaked,
                 lastProcessedTime, registered, syncVars, calls, apiVars,
                 mainVars, refreshVars>>

\* COMMIT resolved on client s: the transaction of that session, if it is
\* in one, ends and its locks are released.  Then gatherChanges returns
\* null (no rows) or the change set, as in CommitOkNoChanges and
\* CommitOkChanges.
SessionCommitOk(c, s) ==
  /\ cycles[c].pc = "commit"
  /\ pool' = [pool EXCEPT !.inTx[s] = FALSE, !.rowLocks[s] = {},
                          !.ran[c].end = s]
  /\ IF NoChanges(cycles[c].dripLists, cycles[c].projects)
       THEN /\ PollReturns(c, FALSE)
            /\ UNCHANGED <<lastProcessedTime, calls>>
       ELSE /\ lastProcessedTime' = Changes(c).timestamp
            /\ cycles' = [cycles EXCEPT ![c].pc = "submit"]
            /\ calls' = calls + 1
            /\ UNCHANGED <<detIsRunning, interval, leaked, startPc,
                           startResult>>
  /\ UNCHANGED <<db, locked, registered, syncIsRunning, metrics, index,
                 apiVars, mainVars, refreshVars>>

\* detector.start(onChangesDetected) and detector.stop() called by a user
\* of the detector other than the synchronizer.
DetectorStart(onChangesDetected) ==
  /\ start(onChangesDetected)
  /\ UNCHANGED <<srcVars, syncVars, calls, apiVars, mainVars, refreshVars>>

DetectorStop ==
  /\ stop
  /\ UNCHANGED <<srcVars, syncVars, calls, apiVars, mainVars, refreshVars>>

\* The callback of such a user settled: resolved, or rejected and logged by
\* poll(); either way poll() returns.
CallbackSettles(c) ==
  /\ cycles[c].pc = "submit"
  /\ PollReturns(c, FALSE)
  /\ UNCHANGED <<srcVars, lastProcessedTime, registered, syncIsRunning,
                 metrics, index, calls, apiVars, mainVars, refreshVars>>

\* ---------------------------------------------------- the synchronizer
Indexes  == {"drip_lists", "projects"}
Statuses == {"succeeded", "failed"}   \* terminal task statuses

\* updateDocuments of documents that carry, in place of the row's
\* updatedAt, a value that grows with the records processed so far.
UpsertStamped(docs, rows) ==
  [r \in RowIds |->
     IF r \in IdsOf(rows)
       THEN (CHOOSE x \in rows : x.id = r).updatedAt
            + metrics.totalProcessedRecords
       ELSE docs[r]]

\* updateDocuments(docs, {primaryKey: 'id'}) once its task has succeeded:
\* a document replaces the one with the same id, the others stay.
Upsert(docs, rows) ==
  [r \in RowIds |->
     IF r \in IdsOf(rows)
       THEN (CHOOSE x \in rows : x.id = r).updatedAt
       ELSE docs[r]]

\* The indexes after the tasks of the indexes in applied have been processed.
IndexAfter(c, applied) ==
  [i \in Indexes |->
     IF i \notin applied THEN index[i]
     ELSE IF i = "drip_lists" THEN Upsert(index[i], cycles[c].dripLists)
     ELSE Upsert(index[i], cycles[c].projects)]

\* handleChanges without its check of projectsTask.status.
TaskFailedDripListsOnly(dripListsStatus, projectsStatus) ==
  dripListsStatus = "failed"

\* dripListsTask.status === 'failed' || projectsTask.status === 'failed'
TaskFailed(dripListsStatus, projectsStatus) ==
  dripListsStatus = "failed" \/ projectsStatus = "failed"

\* The metrics update with = in place of += on totalProcessedRecords.
MetricsAfterSyncOverwriting(m, changes) ==
  [lastSyncTime          |-> changes.timestamp,
   lastSuccessfulSync    |-> "date",
   totalProcessedRecords |-> Cardinality(changes.dripLists)
                             + Cardinality(changes.projects)]

\* The three assignments made once both tasks are known to have succeeded.
MetricsAfterSync(m, changes) ==
  [lastSyncTime          |-> changes.timestamp,
   lastSuccessfulSync    |-> "date",
   totalProcessedRecords |-> m.totalProcessedRecords
                             + Cardinality(changes.dripLists)
                             + Cardinality(changes.projects)]

\* handleChanges' catch block: isRunning = false, changeDetection.stop(),
\* rethrow; poll() catches the error, logs it and returns.
HandleChangesFails(c) ==
  /\ syncIsRunning' = FALSE
  /\ PollReturns(c, TRUE)
  /\ UNCHANGED <<metrics, lastProcessedTime>>

\* synchronizer.start() without its isRunning guard.
SynchronizerStartUnguarded ==
  /\ startPc = "idle"
  /\ syncIsRunning' = TRUE
  /\ startPc' = "init"
  /\ UNCHANGED <<detVars, metrics, index, startResult>>

\* synchronizer.start() up to its first await: nothing when isRunning, else
\* isRunning = true and initializeIndices sends both updateSettings.  A call
\* that finds isRunning false is made only while no other start() call is
\* suspended.
SynchronizerStart ==
  IF syncIsRunning
    THEN /\ startResult' = "resolved"
         /\ UNCHANGED <<detVars, syncIsRunning, startPc, metrics, index>>
    ELSE /\ startPc = "idle"
         /\ syncIsRunning' = TRUE
         /\ startPc' = "init"
         /\ UNCHANGED <<detVars, metrics, index, startResult>>

SyncStart ==
  /\ SynchronizerStart
  /\ UNCHANGED <<srcVars, calls, apiVars, mainVars, refreshVars>>

\* Both updateSettings resolved: changeDetection.start(handleChanges) is
\* called; start() resolves at once when the detector was already running
\* and otherwise once the initial poll has returned (see PollReturns).
InitializeIndicesOk ==
  /\ startPc = "init"
  /\ start("handleChanges")
  /\ IF detIsRunning
       THEN startPc' = "idle" /\ startResult' = "resolved"
       ELSE startPc' = "poll" /\ UNCHANGED startResult
  /\ UNCHANGED <<srcVars, syncIsRunning, metrics, index, calls, apiVars,
                 mainVars, refreshVars>>

\* start()'s catch block without the reset of isRunning.
InitializeIndicesFailKeepsRunning ==
  /\ startPc = "init"
  /\ stop
  /\ startPc' = "idle"
  /\ startResult' = "rejected"
  /\ UNCHANGED <<srcVars, syncIsRunning, metrics, index, calls, apiVars,
                 mainVars, refreshVars>>

\* start() with the rejection of initializeIndices swallowed: the detector
\* is started all the same.
InitializeIndicesFailIgnored ==
  /\ startPc = "init"
  /\ start("handleChanges")
  /\ IF detIsRunning
       THEN startPc' = "idle" /\ startResult' = "resolved"
       ELSE startPc' = "poll" /\ UNCHANGED startResult
  /\ UNCHANGED <<srcVars, syncIsRunning, metrics, index, calls, apiVars,
                 mainVars, refreshVars>>

\* An updateSettings rejected: start()'s catch block resets isRunning, runs
\* changeDetection.stop() and rethrows.
InitializeIndicesFail ==
  /\ startPc = "init"
  /\ syncIsRunning' = FALSE
  /\ stop
  /\ startPc' = "idle"
  /\ startResult' = "rejected"
  /\ UNCHANGED <<srcVars, metrics, index, calls, apiVars, mainVars, refreshVars>>

\* synchronizer.stop(): nothing when not running, else isRunning = false and
\* changeDetection.stop().
SynchronizerStop ==
  IF ~syncIsRunning
    THEN UNCHANGED <<detVars, syncVars>>
    ELSE /\ syncIsRunning' = FALSE
         /\ stop
         /\ UNCHANGED <<startPc, metrics, index, startResult>>

SyncStop ==
  /\ SynchronizerStop
  /\ UNCHANGED <<srcVars, calls, apiVars, mainVars, refreshVars>>

\* Both updateDocuments resolved with a task each: both waitForTask are sent.
SubmitOk(c) ==
  /\ cycles[c].pc = "submit"
  /\ cycles' = [cycles EXCEPT ![c].pc = "wait"]
  /\ UNCHANGED <<srcVars, detIsRunning, interval, leaked, lastProcessedTime,
                 registered, syncVars, calls, apiVars, mainVars, refreshVars>>

\* An updateDocuments or a waitForTask rejected (request error, timeout).
\* The tasks of the indexes in applied were enqueued and processed all the
\* same.
RequestRejected(c, applied) ==
  /\ cycles[c].pc \in {"submit", "wait"}
  /\ index' = IndexAfter(c, applied)
  /\ HandleChangesFails(c)
  /\ UNCHANGED <<srcVars, registered, calls, apiVars, mainVars, refreshVars>>

\* Both waitForTask resolved with the tasks' terminal statuses.
WaitResolved(c, dripListsStatus, projectsStatus) ==
  /\ cycles[c].pc = "wait"
  /\ index' = IndexAfter(c, {i \in Indexes :
                \/ i = "drip_lists" /\ dripListsStatus = "succeeded"
                \/ i = "projects" /\ projectsStatus = "succeeded"})
  /\ IF TaskFailed(dripListsStatus, projectsStatus)
       THEN HandleChangesFails(c) /\ UNCHANGED sameDate
       ELSE /\ metrics' = MetricsAfterSync(metrics, Changes(c))
            /\ sameDate' = FALSE
            /\ PollReturns(c, FALSE)
            /\ UNCHANGED <<syncIsRunning, lastProcessedTime>>
  /\ UNCHANGED <<srcVars, registered, calls, snapshot, healthy, httpVars,
                 mainVars, refreshVars>>

\* getMetrics(): ({...metrics}), a new record with the three values; the
\* Date object held by lastSyncTime is shared with metrics until
\* handleChanges assigns metrics.lastSyncTime again.
GetMetrics ==
  /\ snapshot' = {metrics}
  /\ sameDate' = TRUE
  /\ UNCHANGED <<srcVars, detVars, syncVars, calls, healthy, httpVars,
                 mainVars, refreshVars>>

\* The caller assigns a field of the record it got: snapshot.totalProcessedRecords = 0
\* or snapshot.lastSyncTime = new Date(0).
SnapshotFields == {"lastSyncTime", "totalProcessedRecords"}

CallerAssigns(field) ==
  /\ \E m \in snapshot : snapshot' = {[m EXCEPT ![field] = 0]}
  /\ sameDate' = IF field = "lastSyncTime" THEN FALSE ELSE sameDate
  /\ UNCHANGED <<srcVars, detVars, syncVars, calls, healthy, httpVars,
                 mainVars, refreshVars>>

\* The caller changes the Date it got in place: snapshot.lastSyncTime.setTime(0).
CallerSetTime ==
  /\ \E m \in snapshot : snapshot' = {[m EXCEPT !.lastSyncTime = 0]}
  /\ metrics' = IF sameDate THEN [metrics EXCEPT !.lastSyncTime = 0]
                            ELSE metrics
  /\ UNCHANGED <<srcVars, detVars, syncIsRunning, startPc, index, startResult,
                 calls, sameDate, healthy, httpVars, mainVars, refreshVars>>

\* isHealthy() with its catch block rethrowing.
isHealthyRethrowing(probe) == IF probe = "ok" THEN "true" ELSE "rejected"

\* isHealthy(): true when meiliSearch.health() resolved, false (after
\* logging) when it rejected.
isHealthy(probe) == IF probe = "ok" THEN "true" ELSE "false"

Probes == {"ok", "rejected"}

IsHealthy(probe) ==
  /\ healthy' = isHealthy(probe)
  /\ UNCHANGED <<srcVars, detVars, syncVars, calls, snapshot, sameDate,
                 httpVars, mainVars, refreshVars>>

\* ------------------------------------------ the full-refresh detector
\* The detector of several schemas re-reads both tables of every
\* configured schema in each cycle.  A source row is one row of
\* <schema>."drip_lists" or <schema>."projects": the schema it lives in,
\* its account_id and is_visible; the other columns are the same in all
\* rows.
AccountIds == {"1", "2"}
RefreshSchemas == {"sepolia", "mainnet"}
SourceRows == [schema : RefreshSchemas, id : AccountIds, isVisible : BOOLEAN]

\* account_id is the key of each schema's table.
KeyedBySchemaAndId(rows) ==
  \A x \in rows, y \in rows : (x.schema = y.schema /\ x.id = y.id) => x = y

NoRecords == [dripLists |-> << >>, projects |-> << >>]

ConfiguredSchemas == {config.schemas[i] : i \in DOMAIN config.schemas}

\* SELECT "account_id" as "id", ..., "is_visible" as "isVisible",
\* '${schema}' AS chain FROM ${schema}."drip_lists" WHERE "is_visible" = TRUE
dripListsSql(schema) ==
  {[id |-> x.id, isVisible |-> x.isVisible, chain |-> schema] :
     x \in {y \in tables["drip_lists"] : y.schema = schema /\ y.isVisible}}

\* The projects query without its '${schema}' AS chain column.
projectsSqlUntagged(schema) ==
  {[id |-> x.id, isVisible |-> x.isVisible, chain |-> "none"] :
     x \in {y \in tables["projects"] : y.schema = schema}}

\* SELECT "account_id" as "id", ..., "is_visible" as "isVisible", ...,
\* '${schema}' AS chain FROM ${schema}."projects"
projectsSql(schema) ==
  {[id |-> x.id, isVisible |-> x.isVisible, chain |-> schema] :
     x \in {y \in tables["projects"] : y.schema = schema}}

\* schemas.map(...).join(' UNION '): UNION keeps one of several equal rows.
dripListsFullQuery == UNION {dripListsSql(schema) : schema \in ConfiguredSchemas}
projectsSqlFullQuery == UNION {projectsSql(schema) : schema \in ConfiguredSchemas}

\* result.rows: the rows of a query's answer as an array, in any order (no
\* ORDER BY).
RowArrays(rows) ==
  {a \in [1..Cardinality(rows) -> rows] :
     \A i \in DOMAIN a, j \in DOMAIN a : a[i] = a[j] => i = j}

\* changes.dripLists.map(dl => ({id: dl.id, ..., type: 'drip_list', ...}))
\* and changes.projects.map(p => ({id: p.id, ..., type: 'project', ...}))
dripListDocument(dl) ==
  [id |-> dl.id, type |-> "drip_list", chain |-> dl.chain,
   isVisible |-> dl.isVisible]

projectDocument(p) ==
  [id |-> p.id, type |-> "project", chain |-> p.chain,
   isVisible |-> p.isVisible]

\* index.updateDocuments(batch, {primaryKey: 'id'}) once its task has
\* succeeded: the documents of the batch are taken in array order, each one
\* replacing the document of the index that has the same id.
RECURSIVE updateDocuments(_, _)
updateDocuments(docs, batch) ==
  IF batch = << >> THEN docs
  ELSE updateDocuments({d \in docs : d.id # Head(batch).id} \cup {Head(batch)},
                       Tail(batch))

DocumentsOf(c, i) ==
  IF i = "drip_lists"
    THEN [k \in DOMAIN records[c].dripLists |->
            dripListDocument(records[c].dripLists[k])]
    ELSE [k \in DOMAIN records[c].projects |->
            projectDocument(records[c].projects[k])]

\* The indexes after the tasks of the indexes in applied have been processed.
DocumentsAfter(c, applied) ==
  [i \in {"drip_lists", "projects"} |->
     IF i \notin applied THEN documents[i]
     ELSE updateDocuments(documents[i], DocumentsOf(c, i))]

\* A Date after the epoch: what new Date() returns.
Now == 1

\* start(onChangesDetected) of this detector up to its first await: nothing
\* when already running, else isRunning = true and the initial poll(),
\* which calls getAllRecords.
refreshStart(onChangesDetected) ==
  IF detIsRunning
    THEN UNCHANGED <<detVars, records>>
    ELSE /\ CanBegin
         /\ detIsRunning' = TRUE
         /\ registered' = onChangesDetected
         /\ cycles' = [cycles EXCEPT ![FreeSlot] =
                         [IdleCycle EXCEPT !.pc = "records", !.initial = TRUE]]
         /\ UNCHANGED <<interval, leaked, lastProcessedTime, records>>

\* A tick of this detector's timer: poll() checks isRunning and calls
\* getAllRecords.
RefreshTick ==
  /\ interval \/ leaked
  /\ detIsRunning
  /\ CanBegin
  /\ cycles' = [cycles EXCEPT ![FreeSlot] =
                  [IdleCycle EXCEPT !.pc = "records"]]
  /\ UNCHANGED <<srcVars, detIsRunning, interval, leaked, lastProcessedTime,
                 registered, syncVars, calls, apiVars, mainVars, refreshVars>>

\* poll() with the early return of the watermark detector: no callback when
\* both arrays are empty.
GetAllRecordsOkSkippingEmpty(c) ==
  /\ cycles[c].pc = "records"
  /\ \E dl \in RowArrays(dripListsFullQuery) :
       \E pr \in RowArrays(projectsSqlFullQuery) :
         /\ records' = [records EXCEPT ![c] = [dripLists |-> dl, projects |-> pr]]
         /\ IF dl = << >> /\ pr = << >>
              THEN /\ PollReturns(c, FALSE)
                   /\ UNCHANGED calls
              ELSE /\ cycles' = [cycles EXCEPT ![c].pc = "submit"]
                   /\ calls' = calls + 1
                   /\ UNCHANGED <<detIsRunning, interval, leaked, startPc,
                                  startResult>>
  /\ UNCHANGED <<srcVars, lastProcessedTime, registered, syncIsRunning,
                 metrics, index, apiVars, mainVars, tables, documents>>

\* Promise.all of the two queries resolved: poll() calls onChangesDetected
\* with the two arrays, i.e. handleChanges, which sends both
\* updateDocuments.
GetAllRecordsOk(c) ==
  /\ cycles[c].pc = "records"
  /\ \E dl \in RowArrays(dripListsFullQuery) :
       \E pr \in RowArrays(projectsSqlFullQuery) :
         records' = [records EXCEPT ![c] = [dripLists |-> dl, projects |-> pr]]
  /\ cycles' = [cycles EXCEPT ![c].pc = "submit"]
  /\ calls' = calls + 1
  /\ UNCHANGED <<srcVars, detIsRunning, interval, leaked, lastProcessedTime,
                 registered, syncVars, apiVars, mainVars, tables, documents>>

\* A query rejected: poll() logs the error and returns.
GetAllRecordsFail(c) ==
  /\ cycles[c].pc = "records"
  /\ PollReturns(c, FALSE)
  /\ UNCHANGED <<srcVars, lastProcessedTime, registered, syncIsRunning,
                 metrics, index, calls, apiVars, mainVars, refreshVars>>

\* The synchronizer of this detector.  Both updateSettings resolved:
\* changeDetection.start(handleChanges) is called.
RefreshInitializeIndicesOk ==
  /\ startPc = "init"
  /\ refreshStart("handleChanges")
  /\ IF detIsRunning
       THEN startPc' = "idle" /\ startResult' = "resolved"
       ELSE startPc' = "poll" /\ UNCHANGED startResult
  /\ UNCHANGED <<srcVars, syncIsRunning, metrics, index, calls, apiVars,
                 mainVars, tables, documents>>

\* An updateDocuments or a waitForTask rejected; the tasks of the indexes
\* in applied were enqueued and processed all the same.  handleChanges'
\* catch block is the one of HandleChangesFails.
RefreshRequestRejected(c, applied) ==
  /\ cycles[c].pc \in {"submit", "wait"}
  /\ documents' = DocumentsAfter(c, applied)
  /\ records' = [records EXCEPT ![c] = NoRecords]
  /\ HandleChangesFails(c)
  /\ UNCHANGED <<srcVars, registered, index, calls, apiVars, mainVars, tables>>

\* Both waitForTask resolved with the tasks' terminal statuses; when both
\* succeeded, metrics.lastSyncTime = new Date() and totalProcessedRecords =
\* the number of rows of this change set.
RefreshWaitResolved(c, dripListsStatus, projectsStatus) ==
  /\ cycles[c].pc = "wait"
  /\ documents' = DocumentsAfter(c, {i \in Indexes :
                    \/ i = "drip_lists" /\ dripListsStatus = "succeeded"
                    \/ i = "projects" /\ projectsStatus = "succeeded"})
  /\ records' = [records EXCEPT ![c] = NoRecords]
  /\ IF TaskFailed(dripListsStatus, projectsStatus)
       THEN HandleChangesFails(c) /\ UNCHANGED sameDate
       ELSE /\ metrics' = [metrics EXCEPT
                             !.lastSyncTime = Now,
                             !.totalProcessedRecords =
                                Len(records[c].dripLists)
                                + Len(records[c].projects)]
            /\ sameDate' = FALSE
            /\ PollReturns(c, FALSE)
            /\ UNCHANGED <<syncIsRunning, lastProcessedTime>>
  /\ UNCHANGED <<srcVars, registered, index, calls, snapshot, healthy,
                 httpVars, mainVars, tables>>

\* A writer deletes a row of the source.
RefreshWriterDelete(i, row) ==
  /\ row \in tables[i]
  /\ tables' = [tables EXCEPT ![i] = @ \ {row}]
  /\ UNCHANGED <<srcVars, detVars, syncVars, calls, apiVars, mainVars,
                 documents, records>>

\* ------------------------------------------------- the health endpoint
\* Requests: req.method and req.url.
Methods == {"GET", "POST"}
Urls    == {"/health", "/health/live", "/metrics"}

\* requestUrl.startsWith('/health')
startsWithHealth(url) == url \in {"/health", "/health/live"}

\* performPostgresCheck: 'ok' when SELECT 1 resolved, 'fail' (after
\* logging) when it rejected.
performPostgresCheck(probe) == IF probe = "ok" THEN "ok" ELSE "fail"

\* evaluateSynchronizer that reports 'ok' whatever lastSyncTime is.
evaluateSynchronizerAlwaysOk(m) == "ok"

\* evaluateSynchronizer(synchronizer), on the record getMetrics() returns:
\* 'initializing' while lastSyncTime.getTime() === 0, else 'ok'.  The
\* branch for a missing lastSyncTime is never taken: the field always holds
\* a Date.
evaluateSynchronizer(m) ==
  IF m.lastSyncTime = 0 THEN "initializing" ELSE "ok"

NotFound == [statusCode |-> 404, status |-> "Not Found",
             postgres |-> "none", synchronizer |-> "none"]

\* handleRequest up to its await: 404 for anything but GET /health..., else
\* performPostgresCheck sends SELECT 1.
HealthRequest(method, url) ==
  /\ healthPc = "idle"
  /\ IF method # "GET" \/ ~startsWithHealth(url)
       THEN response' = NotFound /\ UNCHANGED healthPc
       ELSE healthPc' = "probe" /\ UNCHANGED response
  /\ UNCHANGED <<srcVars, detVars, syncVars, calls, snapshot, sameDate,
                 healthy, mainVars, refreshVars>>

\* SELECT 1 settled: the synchronizer is evaluated now, and the response
\* is sent.
HealthProbeSettled(probe) ==
  /\ healthPc = "probe"
  /\ healthPc' = "idle"
  /\ LET postgresStatus     == performPostgresCheck(probe)
         synchronizerStatus == evaluateSynchronizer(metrics)
         isHealthyResponse  == postgresStatus = "ok"
                               /\ synchronizerStatus = "ok"
     IN  response' = [statusCode   |-> IF isHealthyResponse THEN 200 ELSE 503,
                      status       |-> IF isHealthyResponse THEN "ok"
                                                            ELSE "fail",
                      postgres     |-> postgresStatus,
                      synchronizer |-> synchronizerStatus]
  /\ UNCHANGED <<srcVars, detVars, syncVars, calls, snapshot, sameDate,
                 healthy, mainVars, refreshVars>>

\* ------------------------------------------------------- the process
\* config/configSchema.ts
ALLOWED_DB_SCHEMAS ==
  {"sepolia", "mainnet", "filecoin", "optimism", "metis", "localtestnet"}

\* createPollingChangeDetection(pool, logger, {schema, ...}): the check that
\* follows the three declarations and comes before everything else.
createPollingChangeDetection(schema) ==
  IF schema \notin ALLOWED_DB_SCHEMAS THEN "threw" ELSE "ok"

\* The detector of several schemas with a loop that looks at schemas[0] only.
createPollingChangeDetectionFirstSchema(schemas) ==
  IF schemas # << >> /\ Head(schemas) \notin ALLOWED_DB_SCHEMAS
    THEN "threw" ELSE "ok"

\* The detector of several schemas: for (const schema of schemas), throw at
\* the first one that is not allowed.
RECURSIVE createPollingChangeDetectionSchemas(_)
createPollingChangeDetectionSchemas(schemas) ==
  IF schemas = << >> THEN "ok"
  ELSE IF Head(schemas) \notin ALLOWED_DB_SCHEMAS THEN "threw"
  ELSE createPollingChangeDetectionSchemas(Tail(schemas))

\* main(): initializeApp constructs the detector (of either kind, from the
\* same config) and the synchronizer, the signal handlers are registered and
\* synchronizer.start() is called.  An error thrown by the constructor
\* rejects main(), whose catch handler calls process.exit(1).
Main ==
  /\ mainPc = "boot"
  /\ constructed' =
       [single |-> createPollingChangeDetection(config.schema),
        multi  |-> createPollingChangeDetectionSchemas(config.schemas)]
  /\ IF createPollingChangeDetection(config.schema) = "threw"
       THEN /\ mainPc' = "exited"
            /\ exitCode' = 1
            /\ UNCHANGED <<detVars, syncVars, signals>>
       ELSE /\ mainPc' = "starting"
            /\ signals' = [sig \in Signals |-> "armed"]
            /\ SynchronizerStart
            /\ UNCHANGED exitCode
  /\ UNCHANGED <<srcVars, calls, apiVars, refreshVars, config, poolEnded>>

\* await synchronizer.start() resolved: main() returns.
MainStarted ==
  /\ mainPc = "starting"
  /\ startPc = "idle"
  /\ startResult = "resolved"
  /\ mainPc' = "running"
  /\ UNCHANGED <<srcVars, detVars, syncVars, calls, apiVars, refreshVars, config,
                 constructed, exitCode, poolEnded, signals>>

\* Where the shutdown() called for signal is: main()'s own call, for
\* 'STARTUP_ERROR', is followed in mainPc, a handler's call in signals.
Suspend(signal, pc) ==
  IF signal = "STARTUP_ERROR"
    THEN mainPc' = pc /\ UNCHANGED signals
    ELSE signals' = [signals EXCEPT ![signal] = pc] /\ UNCHANGED mainPc

\* shutdown() that sends pool.end() without calling synchronizer.stop().
shutdownWithoutStop(signal) ==
  /\ Suspend(signal, "ending")
  /\ UNCHANGED <<srcVars, detVars, syncVars, calls, apiVars, refreshVars, config,
                 constructed, exitCode, poolEnded>>

\* shutdown(pool, synchronizer, signal, logger) up to its second await:
\* synchronizer.stop(), then pool.end() is sent.
shutdown(signal) ==
  /\ SynchronizerStop
  /\ Suspend(signal, "ending")
  /\ UNCHANGED <<srcVars, calls, apiVars, refreshVars, config, constructed, exitCode,
                 poolEnded>>

\* await synchronizer.start() rejected: main()'s catch block logs and calls
\* shutdown(..., 'STARTUP_ERROR', ...).
MainStartFailed ==
  /\ mainPc = "starting"
  /\ startPc = "idle"
  /\ startResult = "rejected"
  /\ shutdown("STARTUP_ERROR")

\* SIGTERM or SIGINT arrives: the handler registered with process.once runs
\* once and calls shutdown().
Signal(signal) ==
  /\ signals[signal] = "armed"
  /\ shutdown(signal)

\* pool.end() settled: process.exitCode = 1 in the try block and in the
\* catch block alike.  A second pool.end() can only reject.
PoolEndSettled(signal, ok) ==
  /\ IF signal = "STARTUP_ERROR" THEN mainPc = "ending"
                                 ELSE signals[signal] = "ending"
  /\ ok => ~poolEnded
  /\ Suspend(signal, "done")
  /\ poolEnded' = (poolEnded \/ ok)
  /\ exitCode' = 1
  /\ UNCHANGED <<srcVars, detVars, syncVars, calls, apiVars, refreshVars, config,
                 constructed>>

\* ------------------------------------------------- what hist records
KeepHist == UNCHANGED hist

RowsOf(c) == cycles[c].dripLists \cup cycles[c].projects

BothSucceeded(s1, s2) == s1 = "succeeded" /\ s2 = "succeeded"

\* Spec: the outcome of each handleChanges call and the logged empty polls.
NoteNoChanges ==
  IF \A r \in RowIds : db[r] = NoRow
    THEN hist' = [hist EXCEPT !.emptyPolls = IF @ < 2 THEN @ + 1 ELSE @]
    ELSE KeepHist

NoteInsert == hist' = [hist EXCEPT !.emptyPolls = 0]

NoteApply(c, ok) ==
  hist' = [hist EXCEPT
             !.lastApply = IF ok THEN "ok" ELSE "failed",
             !.applied   = IF ok THEN @ + 1 ELSE @,
             !.sum       = IF ok THEN @ + Cardinality(RowsOf(c)) ELSE @,
             !.lastTs    = IF ok THEN Changes(c).timestamp ELSE @]

\* SpecFailure: a failed handleChanges, the start() after it, and whether
\* the source was written to in between.
NoteFailure(c) ==
  hist' = [hist EXCEPT !.failed = TRUE, !.restarted = FALSE,
                       !.failedRows = RowsOf(c)]

NoteStart ==
  hist' = [hist EXCEPT !.failed = FALSE,
                       !.restarted = (hist.failed \/ hist.restarted)]

NoteWrite == hist' = [hist EXCEPT !.failedRows = {}, !.restarted = FALSE]

NoteQuery(c) ==
  IF cycles[c].initial
    THEN hist' = [hist EXCEPT !.failedRows = {}, !.restarted = FALSE]
    ELSE KeepHist

\* SpecBatch: the rows that match a query's WHERE clause and are skipped
\* because a writer holds their lock.
NoteSkipped(c) ==
  hist' = [hist EXCEPT !.skipped =
             @ \cup {r \in locked : db[r] # NoRow /\ db[r] >= cycles[c].since}]

\* ------------------------------------------------------ specifications
\* Spec: the synchronizer and its detector over a source of at most one
\* drip list and one project, with concurrent writers.
Next ==
  \/ \E r \in OneRowPerTable, t \in Times : WriterInsert(r, t) /\ NoteInsert
  \/ \E r \in RowIds : WriterLock(r) /\ KeepHist
  \/ \E r \in RowIds, t \in Times : WriterCommit(r, t) /\ KeepHist
  \/ \E r \in RowIds : WriterRollback(r) /\ KeepHist
  \/ SyncStart /\ KeepHist
  \/ InitializeIndicesOk /\ KeepHist
  \/ InitializeIndicesFail /\ KeepHist
  \/ SyncStop /\ KeepHist
  \/ Tick /\ KeepHist
  \/ \E c \in Slots : BeginOk(c) /\ KeepHist
  \/ \E c \in Slots : QueryOk(c) /\ KeepHist
  \/ \E c \in Slots : SourceFail(c) /\ KeepHist
  \/ \E c \in Slots : RollbackSettled(c) /\ KeepHist
  \/ \E c \in Slots : CommitOkNoChanges(c) /\ NoteNoChanges
  \/ \E c \in Slots : CommitOkChanges(c) /\ KeepHist
  \/ \E c \in Slots : SubmitOk(c) /\ KeepHist
  \/ \E c \in Slots, applied \in SUBSET Indexes :
       RequestRejected(c, applied) /\ NoteApply(c, FALSE)
  \/ \E c \in Slots, s1 \in Statuses, s2 \in Statuses :
       WaitResolved(c, s1, s2) /\ NoteApply(c, BothSucceeded(s1, s2))

Spec == Init /\ [][Next]_vars

\* SpecFailure: the same program and source; hist follows failures and
\* restarts instead.
NextFailure ==
  \/ \E r \in OneRowPerTable, t \in Times : WriterInsert(r, t) /\ NoteWrite
  \/ \E r \in RowIds : WriterLock(r) /\ NoteWrite
  \/ \E r \in RowIds, t \in Times : WriterCommit(r, t) /\ NoteWrite
  \/ \E r \in RowIds : WriterRollback(r) /\ NoteWrite
  \/ SyncStart /\ NoteStart
  \/ InitializeIndicesOk /\ KeepHist
  \/ InitializeIndicesFail /\ KeepHist
  \/ SyncStop /\ KeepHist
  \/ Tick /\ KeepHist
  \/ \E c \in Slots : BeginOk(c) /\ KeepHist
  \/ \E c \in Slots : QueryOk(c) /\ NoteQuery(c)
  \/ \E c \in Slots : SourceFail(c) /\ KeepHist
  \/ \E c \in Slots : RollbackSettled(c) /\ KeepHist
  \/ \E c \in Slots : CommitOkNoChanges(c) /\ KeepHist
  \/ \E c \in Slots : CommitOkChanges(c) /\ KeepHist
  \/ \E c \in Slots : SubmitOk(c) /\ KeepHist
  \/ \E c \in Slots, applied \in SUBSET Indexes :
       RequestRejected(c, applied) /\ NoteFailure(c)
  \/ \E c \in Slots, s1 \in Statuses, s2 \in Statuses :
       WaitResolved(c, s1, s2)
       /\ IF BothSucceeded(s1, s2) THEN KeepHist ELSE NoteFailure(c)

SpecFailure == Init /\ [][NextFailure]_vars

\* SpecScenarioB: one row is in the source before the first cycle and no
\* writer touches the source afterwards.
InitScenarioB ==
  \E r \in RowIds, t \in Times :
    InitWith([x \in RowIds |-> IF x = r THEN t ELSE NoRow])

NextScenarioB ==
  \/ SyncStart /\ KeepHist
  \/ InitializeIndicesOk /\ KeepHist
  \/ InitializeIndicesFail /\ KeepHist
  \/ SyncStop /\ KeepHist
  \/ Tick /\ KeepHist
  \/ \E c \in Slots : BeginOk(c) /\ KeepHist
  \/ \E c \in Slots : QueryOk(c) /\ KeepHist
  \/ \E c \in Slots : SourceFail(c) /\ KeepHist
  \/ \E c \in Slots : RollbackSettled(c) /\ KeepHist
  \/ \E c \in Slots : CommitOkNoChanges(c) /\ KeepHist
  \/ \E c \in Slots : CommitOkChanges(c) /\ KeepHist
  \/ \E c \in Slots : SubmitOk(c) /\ KeepHist
  \/ \E c \in Slots, applied \in SUBSET Indexes :
       RequestRejected(c, applied) /\ KeepHist
  \/ \E c \in Slots, s1 \in Statuses, s2 \in Statuses :
       WaitResolved(c, s1, s2) /\ KeepHist

SpecScenarioB == InitScenarioB /\ [][NextScenarioB]_vars

\* SpecBatch: two drip lists and no project, so that LIMIT cuts the answer;
\* the index backend does not fail and stop() is not called.
NextBatch ==
  \/ \E r \in DripListIds, t \in Times : WriterInsert(r, t) /\ KeepHist
  \/ \E r \in RowIds : WriterLock(r) /\ KeepHist
  \/ \E r \in RowIds, t \in Times : WriterCommit(r, t) /\ KeepHist
  \/ \E r \in RowIds : WriterRollback(r) /\ KeepHist
  \/ SyncStart /\ KeepHist
  \/ InitializeIndicesOk /\ KeepHist
  \/ Tick /\ KeepHist
  \/ \E c \in Slots : BeginOk(c) /\ KeepHist
  \/ \E c \in Slots : QueryOk(c) /\ NoteSkipped(c)
  \/ \E c \in Slots : CommitOkNoChanges(c) /\ KeepHist
  \/ \E c \in Slots : CommitOkChanges(c) /\ KeepHist
  \/ \E c \in Slots : SubmitOk(c) /\ KeepHist
  \/ \E c \in Slots : WaitResolved(c, "succeeded", "succeeded") /\ KeepHist

SpecBatch == Init /\ [][NextBatch]_vars

\* SpecDetector: the detector used directly, with callbacks other than
\* handleChanges; hist keeps the last start() or stop() call.
Callbacks == {"cb1", "cb2"}

NoteCall(op, arg, running) ==
  hist' = [hist EXCEPT !.call = [op |-> op, arg |-> arg, running |-> running,
                                 flip |-> ~hist.call.flip]]

NextDetector ==
  \/ \E r \in OneRowPerTable, t \in Times : WriterInsert(r, t) /\ KeepHist
  \/ \E cb \in Callbacks :
       DetectorStart(cb) /\ NoteCall("start", cb, detIsRunning)
  \/ DetectorStop /\ NoteCall("stop", "none", detIsRunning)
  \/ Tick /\ KeepHist
  \/ \E c \in Slots : BeginOk(c) /\ KeepHist
  \/ \E c \in Slots : QueryOk(c) /\ KeepHist
  \/ \E c \in Slots : SourceFail(c) /\ KeepHist
  \/ \E c \in Slots : RollbackSettled(c) /\ KeepHist
  \/ \E c \in Slots : CommitOkNoChanges(c) /\ KeepHist
  \/ \E c \in Slots : CommitOkChanges(c) /\ KeepHist
  \/ \E c \in Slots : CallbackSettles(c) /\ KeepHist

SpecDetector == Init /\ [][NextDetector]_vars

\* One drip list, updated at 1 ms, is in the source.
InitOneRow == InitWith([r \in RowIds |-> IF r = "d1" THEN 1 ELSE NoRow])

\* SpecSync: the synchronizer over that source and no writers, with start()
\* and stop() called from outside at any time; hist keeps the last call.
NextSync ==
  \/ SyncStart /\ NoteCall("sync.start", "none", syncIsRunning)
  \/ SyncStop /\ NoteCall("sync.stop", "none", syncIsRunning)
  \/ InitializeIndicesOk /\ KeepHist
  \/ InitializeIndicesFail /\ KeepHist
  \/ Tick /\ KeepHist
  \/ \E c \in Slots : BeginOk(c) /\ KeepHist
  \/ \E c \in Slots : QueryOk(c) /\ KeepHist
  \/ \E c \in Slots : SourceFail(c) /\ KeepHist
  \/ \E c \in Slots : RollbackSettled(c) /\ KeepHist
  \/ \E c \in Slots : CommitOkNoChanges(c) /\ KeepHist
  \/ \E c \in Slots : CommitOkChanges(c) /\ KeepHist
  \/ \E c \in Slots : SubmitOk(c) /\ KeepHist
  \/ \E c \in Slots, applied \in SUBSET Indexes :
       RequestRejected(c, applied) /\ KeepHist
  \/ \E c \in Slots, s1 \in Statuses, s2 \in Statuses :
       WaitResolved(c, s1, s2) /\ KeepHist

SpecSync == InitOneRow /\ [][NextSync]_vars

\* SpecApi: the synchronizer over the same source, started and never
\* stopped, with getMetrics() and isHealthy() called from outside at any
\* time and the caller changing the record getMetrics() gave it.
NextApi ==
  \/ SyncStart /\ NoteCall("sync.start", "none", syncIsRunning)
  \/ GetMetrics /\ NoteCall("getMetrics", "none", syncIsRunning)
  \/ \E field \in SnapshotFields :
       CallerAssigns(field) /\ NoteCall("assign", field, syncIsRunning)
  \/ CallerSetTime /\ NoteCall("setTime", "none", syncIsRunning)
  \/ \E probe \in Probes :
       IsHealthy(probe) /\ NoteCall("isHealthy", probe, syncIsRunning)
  \/ InitializeIndicesOk /\ KeepHist
  \/ Tick /\ KeepHist
  \/ \E c \in Slots : BeginOk(c) /\ KeepHist
  \/ \E c \in Slots : QueryOk(c) /\ KeepHist
  \/ \E c \in Slots : CommitOkNoChanges(c) /\ KeepHist
  \/ \E c \in Slots : CommitOkChanges(c) /\ KeepHist
  \/ \E c \in Slots : SubmitOk(c) /\ KeepHist
  \/ \E c \in Slots, s1 \in Statuses, s2 \in Statuses :
       WaitResolved(c, s1, s2) /\ KeepHist

SpecApi == InitOneRow /\ [][NextApi]_vars

\* SpecMain: the process, from main() on, over the source of one row; the
\* configured schema names are drawn from Schemas.
MaxSchemas == 2
Schemas == {"sepolia", "mainnet", "public"}

SchemaLists ==
  UNION {[1..n -> Schemas] : n \in 0..MaxSchemas}

InitMain ==
  /\ db = [r \in RowIds |-> IF r = "d1" THEN 1 ELSE NoRow]
  /\ locked = {}
  /\ pool = PoolInit
  /\ detIsRunning = FALSE
  /\ interval = FALSE
  /\ leaked = FALSE
  /\ lastProcessedTime = 0
  /\ cycles = [c \in Slots |-> IdleCycle]
  /\ syncIsRunning = FALSE
  /\ startPc = "idle"
  /\ metrics = InitialMetrics
  /\ index = [i \in {"drip_lists", "projects"} |-> [r \in RowIds |-> NoRow]]
  /\ calls = 0
  /\ registered = "none"
  /\ startResult = "none"
  /\ snapshot = {}
  /\ sameDate = FALSE
  /\ healthy = "none"
  /\ healthPc = "idle"
  /\ response = [statusCode |-> 0, status |-> "none",
                  postgres |-> "none", synchronizer |-> "none"]
  /\ config \in [schema : Schemas, schemas : SchemaLists]
  /\ constructed = [single |-> "none", multi |-> "none"]
  /\ mainPc = "boot"
  /\ exitCode = 0
  /\ poolEnded = FALSE
  /\ signals = [sig \in Signals |-> "off"]
  /\ tables = [i \in {"drip_lists", "projects"} |-> {}]
  /\ documents = [i \in {"drip_lists", "projects"} |-> {}]
  /\ records = [c \in Slots |-> [dripLists |-> << >>, projects |-> << >>]]
  /\ hist = HistInit

NoteStartupError(kind) ==
  IF mainPc = "starting"
    THEN hist' = [hist EXCEPT !.startupError = kind]
    ELSE KeepHist

NextMain ==
  \/ Main /\ KeepHist
  \/ MainStarted /\ KeepHist
  \/ MainStartFailed /\ KeepHist
  \/ \E sig \in Signals :
       Signal(sig) /\ NoteCall("shutdown", sig, syncIsRunning)
  \/ \E sig \in Signals \cup {"STARTUP_ERROR"}, ok \in BOOLEAN :
       PoolEndSettled(sig, ok) /\ KeepHist
  \/ InitializeIndicesOk /\ KeepHist
  \/ InitializeIndicesFail /\ NoteStartupError("init")
  \/ Tick /\ KeepHist
  \/ \E c \in Slots : BeginOk(c) /\ KeepHist
  \/ \E c \in Slots : QueryOk(c) /\ KeepHist
  \/ \E c \in Slots : SourceFail(c) /\ KeepHist
  \/ \E c \in Slots : RollbackSettled(c) /\ KeepHist
  \/ \E c \in Slots : CommitOkNoChanges(c) /\ KeepHist
  \/ \E c \in Slots : CommitOkChanges(c) /\ KeepHist
  \/ \E c \in Slots : SubmitOk(c) /\ KeepHist
  \/ \E c \in Slots, applied \in SUBSET Indexes :
       RequestRejected(c, applied) /\ NoteStartupError("apply")
  \/ \E c \in Slots, s1 \in Statuses, s2 \in Statuses :
       WaitResolved(c, s1, s2)
       /\ IF BothSucceeded(s1, s2) THEN KeepHist
                                   ELSE NoteStartupError("apply")

SpecMain == InitMain /\ [][NextMain]_vars

\* SpecReapply: a drip list and a project are in the source before the
\* first cycle, no writer touches the source and stop() is not called;
\* source statements may fail, and cycles that overlap after a failed
\* initial poll deliver one change set more than once.  hist keeps
\* the change set applied last and the indexes after that apply.
InitReapply ==
  \E t1 \in Times, t2 \in Times :
    InitWith([r \in RowIds |-> IF r = "d1" THEN t1
                               ELSE IF r = "p1" THEN t2 ELSE NoRow])

NoteReapply(c, ok) ==
  hist' = [hist EXCEPT
             !.lastApply   = IF ok THEN "ok" ELSE "failed",
             !.applied     = IF ok THEN @ + 1 ELSE @,
             !.lastChanges = IF ok THEN Changes(c) ELSE @,
             !.docsAfter   = IF ok THEN index' ELSE @,
             !.twice       = IF ok THEN /\ hist.applied >= 1
                                        /\ Changes(c) = hist.lastChanges
                                        /\ index = hist.docsAfter
                                   ELSE @]

NextReapply ==
  \/ SyncStart /\ KeepHist
  \/ InitializeIndicesOk /\ KeepHist
  \/ Tick /\ KeepHist
  \/ \E c \in Slots : BeginOk(c) /\ KeepHist
  \/ \E c \in Slots : QueryOk(c) /\ KeepHist
  \/ \E c \in Slots : SourceFail(c) /\ KeepHist
  \/ \E c \in Slots : RollbackSettled(c) /\ KeepHist
  \/ \E c \in Slots : CommitOkNoChanges(c) /\ KeepHist
  \/ \E c \in Slots : CommitOkChanges(c) /\ KeepHist
  \/ \E c \in Slots : SubmitOk(c) /\ KeepHist
  \/ \E c \in Slots, applied \in SUBSET Indexes :
       RequestRejected(c, applied) /\ NoteReapply(c, FALSE)
  \/ \E c \in Slots, s1 \in Statuses, s2 \in Statuses :
       WaitResolved(c, s1, s2) /\ NoteReapply(c, BothSucceeded(s1, s2))

SpecReapply == InitReapply /\ [][NextReapply]_vars

\* SpecPool: the synchronizer over a source of a drip list and a project,
\* with the clients of the pool told apart.  No statement fails, stop() is
\* not called, and the timer ticks only while no poll() is suspended, so
\* that one poll() at a time uses the pool.
NextPool ==
  \/ SyncStart /\ KeepHist
  \/ InitializeIndicesOk /\ KeepHist
  \/ (ActiveSlots = {} /\ Tick) /\ KeepHist
  \/ \E c \in Slots, s \in Sessions : SessionBeginOk(c, s) /\ KeepHist
  \/ \E c \in Slots, s1 \in Sessions, s2 \in Sessions :
       SessionQueryOk(c, s1, s2) /\ KeepHist
  \/ \E c \in Slots, s \in Sessions : SessionCommitOk(c, s) /\ KeepHist
  \/ \E c \in Slots : SubmitOk(c) /\ KeepHist
  \/ \E c \in Slots : WaitResolved(c, "succeeded", "succeeded") /\ KeepHist

SpecPool == InitReapply /\ [][NextPool]_vars

\* SpecRefresh: the full-refresh detector and its synchronizer over two
\* schemas holding up to MaxRows projects and, per schema, at most one drip
\* list; a writer may delete projects; index initialization succeeds and
\* stop() is not called.  hist keeps the outcome of each handleChanges call
\* and the change set applied last.
MaxRows == 2

DripListTables ==
  {T \in SUBSET {r \in SourceRows : r.id = "1"} : KeyedBySchemaAndId(T)}

ProjectTables ==
  {T \in SUBSET {r \in SourceRows : r.isVisible} : Cardinality(T) <= MaxRows}

InitRefresh ==
  /\ db = [r \in RowIds |-> NoRow]
  /\ locked = {}
  /\ pool = PoolInit
  /\ detIsRunning = FALSE
  /\ interval = FALSE
  /\ leaked = FALSE
  /\ lastProcessedTime = 0
  /\ cycles = [c \in Slots |-> IdleCycle]
  /\ syncIsRunning = FALSE
  /\ startPc = "idle"
  /\ metrics = InitialMetrics
  /\ index = [i \in {"drip_lists", "projects"} |-> [r \in RowIds |-> NoRow]]
  /\ calls = 0
  /\ registered = "none"
  /\ startResult = "none"
  /\ snapshot = {}
  /\ sameDate = FALSE
  /\ healthy = "none"
  /\ healthPc = "idle"
  /\ response = [statusCode |-> 0, status |-> "none",
                  postgres |-> "none", synchronizer |-> "none"]
  /\ config = [schema |-> "sepolia", schemas |-> <<"sepolia", "mainnet">>]
  /\ constructed = [single |-> "ok", multi |-> "ok"]
  /\ mainPc = "none"
  /\ exitCode = 0
  /\ poolEnded = FALSE
  /\ signals = [sig \in Signals |-> "off"]
  /\ \E dl \in DripListTables, pr \in ProjectTables :
       tables = [i \in {"drip_lists", "projects"} |->
                   IF i = "drip_lists" THEN dl ELSE pr]
  /\ documents = [i \in {"drip_lists", "projects"} |-> {}]
  /\ records = [c \in Slots |-> NoRecords]
  /\ hist = HistInit

NoteRefreshApply(c, ok) ==
  hist' = [hist EXCEPT
             !.lastApply   = IF ok THEN "ok" ELSE "failed",
             !.applied     = IF ok THEN @ + 1 ELSE @,
             !.lastChanges = IF ok THEN records[c] ELSE @]

NoteQueryResult(result) == hist' = [hist EXCEPT !.lastQuery = result]

NextRefresh ==
  \/ \E row \in SourceRows : RefreshWriterDelete("projects", row) /\ KeepHist
  \/ SyncStart /\ KeepHist
  \/ RefreshInitializeIndicesOk /\ KeepHist
  \/ RefreshTick /\ KeepHist
  \/ \E c \in Slots : GetAllRecordsOk(c) /\ NoteQueryResult("ok")
  \/ \E c \in Slots : GetAllRecordsFail(c) /\ NoteQueryResult("failed")
  \/ \E c \in Slots : SubmitOk(c) /\ KeepHist
  \/ \E c \in Slots, applied \in SUBSET Indexes :
       RefreshRequestRejected(c, applied) /\ NoteRefreshApply(c, FALSE)
  \/ \E c \in Slots, s1 \in Statuses, s2 \in Statuses :
       RefreshWaitResolved(c, s1, s2)
       /\ NoteRefreshApply(c, BothSucceeded(s1, s2))

SpecRefresh == InitRefresh /\ [][NextRefresh]_vars

\* SpecHealth: the synchronizer over the source of one row, started and
\* stopped from outside, with requests arriving at the health endpoint at
\* any time; hist keeps the outcome of each handleChanges call.
NextHealth ==
  \/ \E method \in Methods, url \in Urls :
       HealthRequest(method, url) /\ KeepHist
  \/ \E probe \in Probes : HealthProbeSettled(probe) /\ KeepHist
  \/ SyncStart /\ KeepHist
  \/ SyncStop /\ KeepHist
  \/ InitializeIndicesOk /\ KeepHist
  \/ InitializeIndicesFail /\ KeepHist
  \/ Tick /\ KeepHist
  \/ \E c \in Slots : BeginOk(c) /\ KeepHist
  \/ \E c \in Slots : QueryOk(c) /\ KeepHist
  \/ \E c \in Slots : SourceFail(c) /\ KeepHist
  \/ \E c \in Slots : RollbackSettled(c) /\ KeepHist
  \/ \E c \in Slots : CommitOkNoChanges(c) /\ KeepHist
  \/ \E c \in Slots : CommitOkChanges(c) /\ KeepHist
  \/ \E c \in Slots : SubmitOk(c) /\ KeepHist
  \/ \E c \in Slots, applied \in SUBSET Indexes :
       RequestRejected(c, applied) /\ NoteApply(c, FALSE)
  \/ \E c \in Slots, s1 \in Statuses, s2 \in Statuses :
       WaitResolved(c, s1, s2) /\ NoteApply(c, BothSucceeded(s1, s2))

SpecHealth == InitOneRow /\ [][NextHealth]_vars

\* ---------------------------------------------------------- properties
\* Steps of one poll(), read off a pair of states.
QueryStep(c)       == cycles[c].pc = "query" /\ cycles'[c].pc = "commit"
CallbackStep(c)    == cycles[c].pc = "commit" /\ cycles'[c].pc = "submit"
CallbackReturns(c) == cycles[c].pc \in {"submit", "wait"} /\ cycles'[c].pc = "idle"
\* A successful handleChanges adds at least one row to totalProcessedRecords.
CallbackFails(c)    == CallbackReturns(c) /\ metrics' = metrics
CallbackSucceeds(c) == CallbackReturns(c) /\ metrics' # metrics
InCallback == {c \in Slots : cycles[c].pc \in {"submit", "wait"}}
SourceIsEmpty == \A r \in RowIds : db[r] = NoRow
Found(c) == IdsOf(cycles'[c].dripLists \cup cycles'[c].projects)

\* C1: the watermark is assigned a change set's timestamp only in the step
\* in which onChangesDetected resolves for that change set, and when the
\* callback rejects the watermark is the one the cycle started from.
C1_WatermarkAfterCallback ==
  [][/\ lastProcessedTime' # lastProcessedTime
          => \E c \in Slots : /\ CallbackSucceeds(c)
                              /\ lastProcessedTime' = Changes(c).timestamp
     /\ \A c \in Slots :
          CallbackFails(c) => lastProcessedTime' = cycles[c].since]_vars

\* C2: the watermark never decreases, and when a cycle that delivered rows
\* returns, the watermark is greater than the one the cycle queried with.
C2_WatermarkMonotone ==
  [][/\ lastProcessedTime' >= lastProcessedTime
     /\ \A c \in Slots :
          CallbackReturns(c) => lastProcessedTime' > cycles[c].since]_vars

\* C3: a failing handleChanges leaves both running flags false, and from
\* then until start() is called no cycle queries the source or invokes the
\* callback.
C3_HaltAfterFailure ==
  [][/\ \A c \in Slots :
          CallbackFails(c) => ~syncIsRunning' /\ ~detIsRunning'
     /\ hist.failed => \A c \in Slots : ~QueryStep(c) /\ ~CallbackStep(c)]_vars

\* C4: the metrics change only in the step in which both waitForTask have
\* resolved with both tasks succeeded; a handleChanges that ends in any
\* other way leaves the three metrics as they were.
C4_MetricsOnlyOnSuccess ==
  [][/\ metrics' # metrics
          => \E c \in Slots : /\ cycles[c].pc = "wait"
                              /\ cycles'[c].pc = "idle"
                              /\ hist'.lastApply = "ok"
     /\ \A c \in Slots :
          (CallbackReturns(c) /\ hist'.lastApply # "ok") => metrics' = metrics]_vars

\* A handleChanges has failed after an earlier one had succeeded.
C4_Witness ==
  /\ hist.lastApply = "failed"
  /\ hist.applied >= 1
  /\ metrics.totalProcessedRecords = hist.sum
  /\ metrics.lastSuccessfulSync = "date"

\* C5: totalProcessedRecords is the number of rows of all successfully
\* applied change sets, and lastSyncTime is the timestamp of the last one.
C5_MetricsAccurate ==
  /\ metrics.totalProcessedRecords = hist.sum
  /\ metrics.lastSyncTime = hist.lastTs

\* Two change sets were applied, one of two rows and one of one row.
C5_Witness == hist.applied = 2 /\ hist.sum = 3

\* C6: after a failed apply, the initial poll of the next start(), the
\* source being untouched since the failure, returns every row of the
\* change set whose apply failed.
C6_RestartRedelivers ==
  [][\A c \in Slots :
       (QueryStep(c) /\ cycles[c].initial /\ hist.restarted
          /\ hist.failedRows # {})
       => hist.failedRows \subseteq
            (cycles'[c].dripLists \cup cycles'[c].projects)]_vars

\* C7: at most one invocation of onChangesDetected is in progress.
C7_OneCallbackAtATime == Cardinality(InCallback) <= 1

\* C8: a query is never kept waiting by a lock and returns no locked row,
\* and a row that an earlier query skipped as locked, once unlocked with
\* updatedAt >= since, is in the query's answer or is still at or after the
\* timestamp that answer carries, so that a later cycle can return it.
Matches(r, since) == db[r] # NoRow /\ db[r] >= since

C8_SkipLocked ==
  /\ [](\A c \in Slots : cycles[c].pc = "query" => ENABLED QueryOk(c))
  /\ [][\A c \in Slots :
          QueryStep(c) =>
            /\ \A r \in locked : r \notin Found(c)
            /\ \A r \in hist.skipped \ locked :
                 Matches(r, cycles[c].since) =>
                   \/ r \in Found(c)
                   \/ db[r] >= latestTimestamp(cycles'[c].dripLists,
                                               cycles'[c].projects)]_vars

C10_DeliveredOnce ==
  LET T0 == Max({db[r] : r \in RowIds})
  IN  (/\ metrics.totalProcessedRecords >= 1
       /\ calls = Cardinality(InCallback) + metrics.totalProcessedRecords) =>
        /\ calls <= 1
        /\ lastProcessedTime = T0 + 1
        /\ \A c \in Slots : cycles[c].since = T0 + 1 => RowsOf(c) = {}

\* A step that is a call of operation op from outside.
Called(op) == hist'.call # hist.call /\ hist'.call.op = op

\* C11: detector.start() called while the detector is running leaves the
\* running flag, the timer, the suspended cycles, the watermark and the
\* callback of the running poll closure as they were.
C11_StartWhileRunning ==
  [][(Called("start") /\ detIsRunning) =>
       /\ UNCHANGED <<detIsRunning, interval, leaked, cycles,
                      lastProcessedTime>>
       /\ registered' = registered]_vars

\* start(cb) was called while the detector was running with another callback.
C11_Witness ==
  /\ hist.call.op = "start"
  /\ hist.call.running
  /\ detIsRunning
  /\ registered \in Callbacks \ {hist.call.arg}

\* C12: a cycle whose SELECTs or COMMIT were rejected sends ROLLBACK before
\* it returns, and a cycle that fails in gatherChanges returns without
\* invoking the callback and leaves the watermark, the running flag and an
\* existing timer as they were, so that a tick can begin the next cycle.
FailedInGatherChanges(c) ==
  \/ cycles[c].pc \in {"query", "commit"} /\ cycles'[c].pc = "rollback"
  \/ cycles[c].pc = "begin" /\ cycles'[c].pc = "idle"
  \/ cycles[c].pc = "rollback" /\ cycles'[c].pc = "idle"

C13_StopClearsTimer ==
  /\ [](hist.call.op = "stop" => ~detIsRunning /\ ~interval /\ ~leaked)
  /\ [][/\ Called("stop") => cycles' = cycles
        /\ hist.call.op = "stop" /\ hist'.call.op = "stop" =>
             \A c \in Slots : cycles[c].pc = "idle" => cycles'[c].pc = "idle"]_vars

\* C14: synchronizer.start() called while isRunning is true resolves and
\* leaves the running flag, the suspended start(), the indexes, the metrics
\* and the whole detector as they were.
C14_SyncStartWhileRunning ==
  [][(Called("sync.start") /\ syncIsRunning) =>
       /\ startResult' = "resolved"
       /\ UNCHANGED <<syncIsRunning, startPc, index, metrics, detVars>>]_vars

\* start() was called while the synchronizer was running and polling.
C14_Witness ==
  /\ hist.call.op = "sync.start"
  /\ hist.call.running
  /\ syncIsRunning
  /\ detIsRunning
  /\ startPc = "idle"

\* C15: when start() rejects, the synchronizer's running flag is false, the
\* detector is stopped and no start() is suspended, so that the next
\* start() passes the guard.
StartRejects == startPc # "idle" /\ startPc' = "idle" /\ startResult' = "rejected"

C15_StartFailureResets ==
  /\ [][StartRejects =>
          ~syncIsRunning' /\ ~detIsRunning' /\ ~interval']_vars
  /\ [][(startResult = "rejected" /\ Called("sync.start")) =>
          (syncIsRunning \/ startPc' = "init")]_vars

\* A start() that follows a rejected start() is initializing the indexes.
C15_Witness ==
  /\ startResult = "rejected"
  /\ hist.call.op = "sync.start"
  /\ ~hist.call.running
  /\ startPc = "init"
  /\ syncIsRunning

\* C16: when synchronizer.stop() returns, the synchronizer's running flag is
\* false and the detector is stopped: not running, its timer cleared.
C16_SyncStopStopsDetector ==
  [][Called("sync.stop") =>
       ~syncIsRunning' /\ ~detIsRunning' /\ ~interval']_vars

\* C17: getMetrics() returns the metrics of the moment; a cycle that changes
\* the metrics leaves the returned record alone, and whatever the caller
\* does to that record leaves the metrics alone.
C17_SnapshotIsACopy ==
  [][/\ Called("getMetrics") => snapshot' = {metrics}
     /\ (\E c \in Slots : CallbackReturns(c)) => snapshot' = snapshot
     /\ (Called("assign") \/ Called("setTime")) => metrics' = metrics]_vars

\* C18: isHealthy() resolves to true when the probe succeeded and to false
\* when it failed, never rejects, and leaves the running flag and the
\* metrics alone.
C18_IsHealthyNeverThrows ==
  /\ [](healthy \in {"none", "true", "false"})
  /\ [][Called("isHealthy") =>
          /\ healthy' = (IF hist'.call.arg = "ok" THEN "true" ELSE "false")
          /\ UNCHANGED <<syncIsRunning, metrics>>]_vars

\* isHealthy() has resolved to false while the synchronizer was running.
C18_Witness ==
  /\ hist.call.op = "isHealthy"
  /\ hist.call.arg = "rejected"
  /\ healthy = "false"
  /\ syncIsRunning

\* C19: constructing a detector throws exactly when its schema, or one of
\* its schemas, is not allowed; the process then exits with the detector
\* never started: no timer, no query.
C19_DisallowedSchemaThrows ==
  constructed.single # "none" =>
    /\ constructed.single = "threw" <=> config.schema \notin ALLOWED_DB_SCHEMAS
    /\ constructed.multi = "threw" <=>
         \E i \in DOMAIN config.schemas :
           config.schemas[i] \notin ALLOWED_DB_SCHEMAS
    /\ constructed.single = "threw" =>
         /\ mainPc = "exited"
         /\ ~detIsRunning /\ ~interval /\ ~leaked
         /\ \A c \in Slots : cycles[c] = IdleCycle

\* Both constructors have thrown, the second for the last of its schemas.
C19_Witness ==
  /\ constructed = [single |-> "threw", multi |-> "threw"]
  /\ Len(config.schemas) = MaxSchemas
  /\ \A i \in 1..(MaxSchemas - 1) : config.schemas[i] \in ALLOWED_DB_SCHEMAS

\* C20: main() returns normally only when nothing failed during startup;
\* after a startup error the synchronizer is stopped before the pool is
\* released, and the process ends with exitCode 1.
C20_StartupErrorShutsDown ==
  hist.startupError # "none" =>
    /\ mainPc \in {"starting", "ending", "done"}
    /\ mainPc \in {"ending", "done"} => ~syncIsRunning
    /\ mainPc = "done" => exitCode = 1

\* C21: the shutdown() a signal handler calls sends pool.end() only after
\* synchronizer.stop() has returned, and when pool.end() settles, resolved
\* or rejected, shutdown() returns with process.exitCode set.
C21_ShutdownOnSignal ==
  /\ [](\A sig \in Signals :
          signals[sig] \in {"ending", "done"} => ~syncIsRunning)
  /\ [](\A sig \in Signals : signals[sig] = "done" => exitCode = 1)
  /\ [](poolEnded => ~syncIsRunning)
  /\ [][\A sig \in Signals :
          (signals[sig] = "armed" /\ signals'[sig] # "armed")
            => /\ signals'[sig] = "ending"
               /\ ~syncIsRunning'
               /\ syncIsRunning => ~detIsRunning' /\ ~interval'
               /\ poolEnded' = poolEnded]_vars

\* A signal found the synchronizer running, and the pool.end() of its
\* shutdown() has rejected.
C21_Witness ==
  /\ hist.call.op = "shutdown"
  /\ hist.call.running
  /\ signals[hist.call.arg] = "done"
  /\ ~poolEnded
  /\ exitCode = 1

\* C22: a response of the health endpoint reports the synchronizer as
\* 'initializing' when no change set has been applied successfully so far
\* and as 'ok' when one has; it is 200/'ok' when the source probe and the
\* synchronizer are both 'ok' and 503/'fail' otherwise.
C22_HealthResponse ==
  [][(healthPc = "probe" /\ healthPc' = "idle") =>
       /\ response'.synchronizer =
            IF hist.applied = 0 THEN "initializing" ELSE "ok"
       /\ response'.postgres \in {"ok", "fail"}
       /\ IF response'.postgres = "ok" /\ response'.synchronizer = "ok"
            THEN response'.statusCode = 200 /\ response'.status = "ok"
            ELSE response'.statusCode = 503 /\ response'.status = "fail"]_vars

\* The endpoint has answered 200 after a change set was applied and a
\* later apply failed.
C22_Witness ==
  /\ response.statusCode = 200
  /\ hist.applied >= 1
  /\ hist.lastApply = "failed"

\* Steps of one poll() of the full-refresh detector and of its callback.
RecordsStep(c) == cycles[c].pc = "records" /\ cycles'[c].pc = "submit"
RecordsFail(c) == cycles[c].pc = "records" /\ cycles'[c].pc = "idle"
ApplySucceeds(c) ==
  /\ cycles[c].pc = "wait" /\ cycles'[c].pc = "idle"
  /\ hist'.applied = hist.applied + 1
RowsOfArray(a) == {a[k] : k \in DOMAIN a}
Tagged(x) == [id |-> x.id, isVisible |-> x.isVisible, chain |-> x.schema]

\* C23: a successful handleChanges of the change set that was applied
\* last, the indexes being as that apply left them, leaves both indexes
\* unchanged.
C23_UpsertIdempotent ==
  [][\A c \in Slots :
       (/\ CallbackSucceeds(c)
        /\ hist.applied >= 1
        /\ Changes(c) = hist.lastChanges
        /\ index = hist.docsAfter)
       => index' = index]_vars

\* A change set of a drip list and a project has been applied twice.
C23_Witness ==
  /\ hist.twice
  /\ hist.lastChanges.dripLists # {}
  /\ hist.lastChanges.projects # {}

C25_IdentityIsPartitionAndId ==
  [][\A c \in Slots : ApplySucceeds(c) =>
       /\ \A k \in DOMAIN records[c].projects :
            projectDocument(records[c].projects[k]) \in documents'["projects"]
       /\ \A k \in DOMAIN records[c].dripLists :
            dripListDocument(records[c].dripLists[k])
              \in documents'["drip_lists"]]_vars

\* C30: a cycle whose queries resolve invokes the callback once, with every
\* project and every visible drip list that the configured schemas hold at
\* that moment, whatever was delivered before and also when there is no
\* row; a cycle whose query rejects returns without invoking it.
C30_FullRefreshDelivers ==
  [][\A c \in Slots :
       /\ RecordsStep(c) =>
            /\ calls' = calls + 1
            /\ RowsOfArray(records'[c].projects) =
                 {Tagged(x) : x \in {y \in tables["projects"] :
                                       y.schema \in ConfiguredSchemas}}
            /\ RowsOfArray(records'[c].dripLists) =
                 {Tagged(x) : x \in {y \in tables["drip_lists"] :
                                       /\ y.schema \in ConfiguredSchemas
                                       /\ y.isVisible}}
       /\ (cycles[c].pc = "records" /\ cycles'[c].pc # "records")
            => IF hist'.lastQuery = "ok" THEN RecordsStep(c)
                                         ELSE RecordsFail(c)
       /\ RecordsFail(c) =>
            /\ calls' = calls
            /\ documents' = documents
            /\ metrics' = metrics]_vars

\* After a change set was applied, a later cycle has delivered the very
\* same rows again; and a cycle has delivered an empty change set.
C30_Witness ==
  /\ hist.applied >= 1
  /\ \E c \in Slots :
       /\ cycles[c].pc = "submit"
       /\ records[c] = hist.lastChanges
       /\ records[c] = NoRecords

\* C26: the timestamp a cycle assigns when it emits its change set is one
\* millisecond after the greatest updatedAt among all rows of the change
\* set, drip lists and projects together, and it is the lastSyncTime of a
\* successful apply of that change set.
C26_TimestampIsMaxPlusOne ==
  [][\A c \in Slots :
       /\ CallbackStep(c) =>
            /\ \A x \in RowsOf(c) : lastProcessedTime' >= x.updatedAt + 1
            /\ \E x \in RowsOf(c) : lastProcessedTime' = x.updatedAt + 1
       /\ CallbackSucceeds(c) =>
            /\ \A x \in RowsOf(c) : metrics'.lastSyncTime >= x.updatedAt + 1
            /\ \E x \in RowsOf(c) : metrics'.lastSyncTime = x.updatedAt + 1]_vars

\* A change set whose project is newer than its drip list has been
\* emitted.
C26_Witness ==
  \E c \in Slots :
    /\ cycles[c].pc = "submit"
    /\ \E d \in cycles[c].dripLists, p \in cycles[c].projects :
         /\ d.updatedAt < p.updatedAt
         /\ lastProcessedTime = p.updatedAt + 1

\* C27: when a cycle assigns the watermark, the watermark still has the
\* value the cycle's queries were issued with.
C27_NoStaleBase ==
  [][\A c \in Slots :
       CallbackStep(c) => lastProcessedTime = cycles[c].since]_vars

InitialCycleEnds(c) ==
  cycles[c].initial /\ cycles[c].pc # "idle" /\ cycles'[c].pc = "idle"

C29_StartAwaitsFirstCycle ==
  [][/\ (startPc = "poll" /\ startPc' # "poll") =>
          /\ \E c \in Slots : InitialCycleEnds(c)
          /\ \A c \in Slots : cycles'[c].initial => cycles'[c].pc = "idle"
     /\ (interval' /\ ~interval) => \E c \in Slots : InitialCycleEnds(c)
     /\ \A c \in Slots :
          (cycles[c].pc = "idle" /\ cycles'[c].pc # "idle") =>
            IF cycles'[c].initial
              THEN startPc = "init" /\ startPc' = "poll"
              ELSE interval \/ leaked]_vars

\* start() has resolved after a first cycle that applied a change set, and
\* a tick has begun another cycle.
C29_Witness ==
  /\ startResult = "resolved"
  /\ interval
  /\ metrics.totalProcessedRecords >= 1
  /\ \E c \in Slots : cycles[c].pc # "idle" /\ ~cycles[c].initial

\* C31: the detector never has two live timers, and while the last call
\* was stop() it has none.
C31_AtMostOneTimer ==
  /\ ~(interval /\ leaked)
  /\ hist.call.op = "stop" => ~(interval \/ leaked)

\* C32: while the synchronizer's running flag is false and no start() call
\* is suspended, the detector's running flag is false.
C32_DetectorStoppedWithSynchronizer ==
  (~syncIsRunning /\ startPc = "idle") => ~detIsRunning

\* C33: a start() that performed a start and resolves leaves both running
\* flags true, and a start() whose initial cycle ended in a failed
\* handleChanges rejects.
StartReturns == startPc = "poll" /\ startPc' = "idle"

C33_ResolvedStartIsRunning ==
  [][StartReturns =>
       /\ startResult' = "resolved" => syncIsRunning' /\ detIsRunning'
       /\ (\E c \in Slots : cycles[c].initial /\ CallbackFails(c)) =>
            startResult' = "rejected"]_vars

\* C34: every unlocked row of either table with updatedAt >= the watermark
\* a cycle queried with is in the cycle's answer or has updatedAt >= the
\* timestamp that answer carries.
C34_NoRowSkippedByTheCap ==
  [][\A c \in Slots :
       (QueryStep(c) /\ Found(c) # {}) =>
         \A r \in RowIds \ locked :
           Matches(r, cycles[c].since) =>
             \/ r \in Found(c)
             \/ db[r] >= latestTimestamp(cycles'[c].dripLists,
                                         cycles'[c].projects)]_vars

\* C37: a health response sent while the handleChanges that returned last
\* has failed and the synchronizer's running flag is false does not report
\* the synchronizer as 'ok'.
C37_OkMeansRunning ==
  [][(healthPc = "probe" /\ healthPc' = "idle"
      /\ hist.lastApply = "failed" /\ ~syncIsRunning) =>
        response'.synchronizer # "ok"]_vars

\* C38: lastSyncTime is never after the watermark, and neither lastSyncTime
\* nor totalProcessedRecords ever decreases.
C38_MetricsBehindWatermark ==
  /\ [](metrics.lastSyncTime <= lastProcessedTime)
  /\ [][/\ metrics'.lastSyncTime >= metrics.lastSyncTime
        /\ metrics'.totalProcessedRecords
             >= metrics.totalProcessedRecords]_vars

\* C35: when an apply of the full-refresh synchronizer succeeds and the
\* source still answers the queries as it answered them for that cycle,
\* the ids of the documents of each index are the ids of the rows the
\* cycle's query returned.
C35_IndexMirrorsSource ==
  [][\A c \in Slots :
       (/\ ApplySucceeds(c)
        /\ RowsOfArray(records[c].dripLists) = dripListsFullQuery
        /\ RowsOfArray(records[c].projects) = projectsSqlFullQuery) =>
         /\ IdsOf(documents'["drip_lists"])
              = IdsOf(RowsOfArray(records[c].dripLists))
         /\ IdsOf(documents'["projects"])
              = IdsOf(RowsOfArray(records[c].projects))]_vars

\* C36: the statements of one cycle all ran on one client of the pool, and
\* while no cycle is between its BEGIN and its COMMIT no client's session
\* is in an open transaction.
C36_OneSessionPerCycle ==
  /\ \A c \in Slots :
       \A f \in DOMAIN NoStatements, g \in DOMAIN NoStatements :
         (pool.ran[c][f] # "none" /\ pool.ran[c][g] # "none") =>
           pool.ran[c][f] = pool.ran[c][g]
  /\ (\A c \in Slots : cycles[c].pc \notin {"query", "commit"}) =>
       \A s \in Sessions : ~pool.inTx[s]
====
